---- MODULE Spec2Model ----
(***************************************************************************)
(* Model of the on-path adversaries of wg-scion (package conn) and of the  *)
(* send path of the SCION bind that consults them.                         *)
(*                                                                         *)
(* A path is modelled by the identity of its raw bytes (1..NumPaths); the  *)
(* nil snet.Path is NilPath.  Fingerprint is the SHA-256 digest of the raw *)
(* bytes: an injective, tagged value that is never equal to a path.        *)
(* A Go map is a set of <<key, value>> pairs with at most one pair per     *)
(* key, wrapped in a record that tells a nil map from an empty one.        *)
(* External collaborators (snet.UDPAddr.GetPath, getProber's daemon calls, *)
(* pathprobe.Prober.GetStatuses, the socket) are inputs: every outcome     *)
(* their signatures allow is drawn with \E.                                *)
(***************************************************************************)
EXTENDS Integers, FiniteSets, Sequences, TLC

\* ------------------------------------------------------------------ bounds
NumPaths == 3

\* the history's call counter saturates here
MaxCalls == 4

\* ReadFrom calls of one ReceiveIP that are followed
MaxReads == 2

\* ------------------------------------------------------- program constants
Sha256Size == 32
Poly1305TagSize == 16
MessageInitiationSize == 148
MessageResponseSize == 92
MessageCookieReplySize == 64
LazyWakeUp == 2

SealedFingerprintSize == Sha256Size + Poly1305TagSize
MessageInitiationMultSize == MessageInitiationSize + SealedFingerprintSize

\* ------------------------------------------------------------------ values
NilPath == 0
Paths == 1..NumPaths

\* destination keys nend.dst.IA.String()
IAs == {"1-ff00:0:110", "1-ff00:0:111"}
NilEndpoint == "nil"

NoErr == "nil"
ErrGetPath == "GetPath failed"
ErrProber == "getProber failed"
ErrStatuses == "GetStatuses failed"
ErrNilEndpoint == "Adversary received nil endpoint with path update"

AdversaryKinds ==
  {"Ghost", "Simple", "AllButOne", "AllButOneLossy", "Lazy", "AllButOneAdvanced"}

\* lengths of the buffers handed to getsDropped: every handshake size, the
\* empty buffer and a longer packet
BufLens ==
  {0, MessageCookieReplySize, MessageResponseSize, MessageInitiationSize,
   MessageInitiationMultSize, MessageInitiationMultSize + 1}

\* ------------------------------------------------------------- fingerprint
FingerprintRaw(path) == <<"sha256", path>>

Fingerprint(path) == FingerprintRaw(path)

\* zero value of a Go string
EmptyFp == <<>>

\* pathprobe.PathKey: the raw bytes of the path as a string
PathKey(path) == <<"raw", path>>

\* ----------------------------------------------------------------- Go maps
NilMap == [nil |-> TRUE, kv |-> {}]

MakeMap == [nil |-> FALSE, kv |-> {}]

IsNil(m) == m.nil

Keys(m) == {e[1] : e \in m.kv}

HasKey(m, k) == \E e \in m.kv : e[1] = k

MapPut(m, k, v) ==
  [nil |-> FALSE, kv |-> {e \in m.kv : e[1] # k} \cup {<<k, v>>}]

MapPutAll(m, src) ==
  [nil |-> FALSE,
   kv |-> {e \in m.kv : ~HasKey(src, e[1])} \cup src.kv]

MapGet(m, k) == (CHOOSE e \in m.kv : e[1] = k)[2]

\* mutant: delete leaves the entry in place
MapDeleteKept(m, k) == m

MapDelete(m, k) == [nil |-> m.nil, kv |-> {e \in m.kv : e[1] # k}]

\* the path map a caller hands to UpdatePaths: keyed by fingerprint
PathMap(S) == [nil |-> FALSE, kv |-> {<<Fingerprint(p), p>> : p \in S}]

PathMaps == {PathMap(S) : S \in SUBSET Paths}

\* ---------------------------------------------------------------- probing
StatusAlive == "Alive"
StatusTimeout == "Timeout"
StatusSCMP == "SCMP"
ZeroStatus == ""

StatusOf(statusMap, key) ==
  IF \E e \in statusMap : e[1] = key
  THEN (CHOOSE e \in statusMap : e[1] = key)[2]
  ELSE ZeroStatus

\* what getProber and Prober.GetStatuses can answer for a path list: the
\* prober cannot be built, GetStatuses fails, or it returns a status for
\* any part of the list (none at all included)
StatusMaps(paths) ==
  LET ps == {e[2] : e \in paths.kv}
  IN  {{<<PathKey(p), f[p]>> : p \in {q \in ps : f[q] # ZeroStatus}} :
         f \in [ps -> {ZeroStatus, StatusAlive, StatusTimeout, StatusSCMP}]}

ProbeOutcomes(paths) ==
  {[proberErr |-> TRUE, statusErr |-> FALSE, statusMap |-> {}],
   [proberErr |-> FALSE, statusErr |-> TRUE, statusMap |-> {}]}
  \cup {[proberErr |-> FALSE, statusErr |-> FALSE, statusMap |-> sm] :
          sm \in StatusMaps(paths)}

ProbeResult(fp, path, err) == [fp |-> fp, path |-> path, err |-> err]

\* mutant: a timed-out path is preferred to a live one
chooseSafePathTimeoutFirst(paths, probe) ==
  IF probe.proberErr THEN {ProbeResult(EmptyFp, NilPath, ErrProber)}
  ELSE IF probe.statusErr THEN {ProbeResult(EmptyFp, NilPath, ErrStatuses)}
  ELSE IF probe.statusMap = {} THEN {ProbeResult(EmptyFp, NilPath, NoErr)}
  ELSE
    LET alive == {e \in paths.kv :
                    StatusOf(probe.statusMap, PathKey(e[2])) = StatusAlive}
        timeout == {e \in paths.kv :
                    StatusOf(probe.statusMap, PathKey(e[2])) = StatusTimeout}
    IN  IF timeout # {} THEN {ProbeResult(e[1], e[2], NoErr) : e \in timeout}
        ELSE IF alive # {} THEN {ProbeResult(e[1], e[2], NoErr) : e \in alive}
        ELSE IF paths.kv = {} THEN {ProbeResult(EmptyFp, NilPath, NoErr)}
        ELSE {ProbeResult(e[1], e[2], NoErr) : e \in paths.kv}

\* mutant: a probing error is swallowed and some path of the set is chosen
chooseSafePathSilent(paths, probe) ==
  IF (probe.proberErr \/ probe.statusErr \/ probe.statusMap = {})
  THEN IF paths.kv = {} THEN {ProbeResult(EmptyFp, NilPath, NoErr)}
       ELSE {ProbeResult(e[1], e[2], NoErr) : e \in paths.kv}
  ELSE
    LET alive == {e \in paths.kv :
                    StatusOf(probe.statusMap, PathKey(e[2])) = StatusAlive}
        timeout == {e \in paths.kv :
                    StatusOf(probe.statusMap, PathKey(e[2])) = StatusTimeout}
    IN  IF alive # {} THEN {ProbeResult(e[1], e[2], NoErr) : e \in alive}
        ELSE IF timeout # {} THEN {ProbeResult(e[1], e[2], NoErr) : e \in timeout}
        ELSE {ProbeResult(e[1], e[2], NoErr) : e \in paths.kv}

\* chooseSafePath: the set of results the map iteration order allows
chooseSafePath(paths, probe) ==
  IF probe.proberErr THEN {ProbeResult(EmptyFp, NilPath, ErrProber)}
  ELSE IF probe.statusErr THEN {ProbeResult(EmptyFp, NilPath, ErrStatuses)}
  ELSE IF probe.statusMap = {} THEN {ProbeResult(EmptyFp, NilPath, NoErr)}
  ELSE
    LET alive == {e \in paths.kv :
                    StatusOf(probe.statusMap, PathKey(e[2])) = StatusAlive}
        timeout == {e \in paths.kv :
                    StatusOf(probe.statusMap, PathKey(e[2])) = StatusTimeout}
    IN  IF alive # {} THEN {ProbeResult(e[1], e[2], NoErr) : e \in alive}
        ELSE IF timeout # {} THEN {ProbeResult(e[1], e[2], NoErr) : e \in timeout}
        ELSE IF paths.kv = {} THEN {ProbeResult(EmptyFp, NilPath, NoErr)}
        ELSE {ProbeResult(e[1], e[2], NoErr) : e \in paths.kv}

\* ------------------------------------------------------ AllButOneAdversary
Update(b, s, err, probed) == [b |-> b, s |-> s, err |-> err, probed |-> probed]

\* mutant: the record survives a failed probe
discardRecordKept(b, ia) == b

\* mutant: a failed probe clears the record of every destination
discardRecordAll(b, ia) == [ib \in DOMAIN b |-> NilMap]

\* mutant: a failed probe leaves an empty record instead of none
discardRecordEmptied(b, ia) == [b EXCEPT ![ia] = MakeMap]

\* blockedPathSets[ia] = nil on a failed or empty probe
discardRecord(b, ia) == [b EXCEPT ![ia] = NilMap]

\* first update of a destination; r is the result of chooseSafePath
firstUpdate(b, s, ia, paths, r) ==
  LET blocked == [b EXCEPT ![ia] = MapPutAll(MakeMap, paths)]
  IN  IF r.err # NoErr \/ r.path = NilPath
      THEN Update(discardRecord(blocked, ia), s, r.err, TRUE)
      ELSE Update([blocked EXCEPT ![ia] = MapDelete(@, r.fp)],
                  [s EXCEPT ![ia] = r.path], NoErr, TRUE)

\* mutant: the old safe path is never recognised in the new set
keepSafePathMissed(paths, safePathFp) == {}

\* the loop over the new path set of a tracked destination
keepSafePath(paths, safePathFp) == {e \in paths.kv : e[1] = safePathFp}

\* update of a tracked destination; r is used only when the safe path is gone
trackedUpdate(b, s, ia, paths, r) ==
  LET safePathFp == Fingerprint(s[ia])
      kept == keepSafePath(paths, safePathFp)
      blocked == MapPutAll(b[ia], [nil |-> FALSE, kv |-> paths.kv \ kept])
  IN  IF kept # {}
      THEN Update([b EXCEPT ![ia] = blocked],
                  [s EXCEPT ![ia] = (CHOOSE e \in kept : TRUE)[2]], NoErr, FALSE)
      ELSE IF r.err # NoErr \/ r.path = NilPath
      THEN Update(discardRecord([b EXCEPT ![ia] = blocked], ia),
                  [s EXCEPT ![ia] = NilPath], r.err, TRUE)
      ELSE Update([b EXCEPT ![ia] = MapDelete(blocked, r.fp)],
                  [s EXCEPT ![ia] = r.path], NoErr, TRUE)

AllButOneUpdatePaths(b, s, ia, paths, r) ==
  IF IsNil(b[ia]) THEN firstUpdate(b, s, ia, paths, r)
  ELSE trackedUpdate(b, s, ia, paths, r)

Verdict(drop, err) == [drop |-> drop, err |-> err]

\* mutant: one global blocked set instead of one per destination
AllButOneGetsDroppedGlobal(b, ia, path, getPathErr) ==
  IF getPathErr THEN Verdict(TRUE, ErrGetPath)
  ELSE IF IsNil(b[ia]) THEN Verdict(TRUE, NoErr)
  ELSE Verdict(\E ib \in DOMAIN b : HasKey(b[ib], Fingerprint(path)), NoErr)

AllButOneGetsDropped(b, ia, path, getPathErr) ==
  IF getPathErr THEN Verdict(TRUE, ErrGetPath)
  ELSE IF IsNil(b[ia]) THEN Verdict(TRUE, NoErr)
  ELSE Verdict(HasKey(b[ia], Fingerprint(path)), NoErr)

\* --------------------------------------------------------- other adversaries
\* mutant: the pass-through adversary drops
GhostGetsDroppedBlocks == Verdict(TRUE, NoErr)

GhostGetsDropped == Verdict(FALSE, NoErr)

Outcome(drop, err, bp) == [drop |-> drop, err |-> err, bp |-> bp]

\* mutant: a call on another path re-records the blocked path
SimpleGetsDroppedRerecord(bp, ia, path, getPathErr) ==
  IF getPathErr THEN Outcome(FALSE, ErrGetPath, bp)
  ELSE IF ~HasKey(bp, ia) THEN Outcome(TRUE, NoErr, MapPut(bp, ia, path))
  ELSE Outcome(Fingerprint(path) = Fingerprint(MapGet(bp, ia)), NoErr,
               MapPut(bp, ia, path))

SimpleGetsDropped(bp, ia, path, getPathErr) ==
  IF getPathErr THEN Outcome(FALSE, ErrGetPath, bp)
  ELSE IF ~HasKey(bp, ia) THEN Outcome(TRUE, NoErr, MapPut(bp, ia, path))
  ELSE Outcome(Fingerprint(path) = Fingerprint(MapGet(bp, ia)), NoErr, bp)

\* mutant: any first call spends the loss
forcesLossAnyCall(drop, had) == ~had

\* mutant: every call let through by the embedded adversary is lost
forcesLossEvery(drop, had) == ~drop

\* !drop && !adversary.hadLoss
forcesLoss(drop, had) == ~drop /\ ~had

AllButOneLossyGetsDropped(b, had, ia, path, getPathErr) ==
  LET d == AllButOneGetsDropped(b, ia, path, getPathErr)
  IN  IF forcesLoss(d.drop, had)
      THEN [drop |-> TRUE, err |-> d.err, hadLoss |-> TRUE]
      ELSE [drop |-> d.drop, err |-> d.err, hadLoss |-> had]

\* mutant: one call too many is let through
asleepOneMore(cnt, wake) == cnt <= wake

\* adversary.counter < adversary.wakeUp
asleep(cnt, wake) == cnt < wake

LazyGetsDropped(bp, cnt, ia, path, getPathErr) ==
  LET wake == LazyWakeUp
  IN  IF asleep(cnt, wake)
      THEN [drop |-> FALSE, err |-> NoErr, bp |-> bp, counter |-> cnt + 1,
            wakeUp |-> wake]
      ELSE LET o == SimpleGetsDropped(bp, ia, path, getPathErr)
           IN  [drop |-> o.drop, err |-> o.err, bp |-> o.bp, counter |-> cnt,
                wakeUp |-> wake]

\* mutant: the multipath initiation size is not exempt
isHandshakeMsgSizeOld(n) ==
  \/ n = MessageInitiationSize
  \/ n = MessageResponseSize
  \/ n = MessageCookieReplySize

isHandshakeMsgSize(n) ==
  \/ n = MessageInitiationSize
  \/ n = MessageResponseSize
  \/ n = MessageCookieReplySize
  \/ n = MessageInitiationMultSize

AllButOneAdvancedGetsDropped(b, ia, path, n, getPathErr) ==
  IF isHandshakeMsgSize(n) THEN Verdict(FALSE, NoErr)
  ELSE AllButOneGetsDropped(b, ia, path, getPathErr)

\* ------------------------------------------------------------------- state
VARIABLES
  adv,              \* the adversary the harness selected for the run
  blockedPaths,     \* SimpleAdversary.blockedPaths: ia -> path
  blockedPathSets,  \* AllButOneAdversary.blockedPathSets: ia -> (fp -> path)
  safePaths,        \* AllButOneAdversary.safePaths: ia -> path
  hadLoss,          \* AllButOneLossyAdversary.hadLoss
  counter,          \* LazyAdversary.counter
  wakeUp,           \* LazyAdversary.wakeUp
  last,             \* the last call: its arguments and what it returned
  observe,          \* whether the run records the history variable known
  known,            \* history: fingerprints ever reported per destination
  outcome,          \* history: how the last UpdatePaths per destination ended
  firstSeen,        \* history: path of the first judged call per destination
  called,           \* history: destinations a judging call was made for
  seenAllow,        \* history: the embedded AllButOne has let a call through
  nCalls,           \* history: getsDropped calls so far (saturating)
  refBlocked,       \* history: a fresh SimpleAdversary fed the judged calls
  pc,               \* per execution context: the call it is in and where
  elock,            \* NativeEndpoint's sync.RWMutex, per endpoint
  alock,            \* the adversary's sync.Mutex: its holder
  dst               \* NativeEndpoint.dst, per endpoint

vars ==
  <<adv, blockedPaths, blockedPathSets, safePaths, hadLoss, counter, wakeUp,
    last, observe, known, outcome, firstSeen, called, seenAllow, nCalls, refBlocked,
    pc, elock, alock, dst>>

conc == <<pc, elock, alock, dst>>

advState == <<blockedPaths, blockedPathSets, safePaths, hadLoss, counter, wakeUp>>

history == <<known, outcome, firstSeen, called, seenAllow, nCalls, refBlocked>>

AllButOneFamily == {"AllButOne", "AllButOneLossy", "AllButOneAdvanced"}

SimpleFamily == {"Simple", "Lazy"}

\* execution contexts: one per peer session
Threads == {"session1", "session2"}
NoThread == "none"

\* one endpoint per destination
Endpoints == IAs

\* the value of a getsDropped that has not read nend.dst (yet)
NotJudged == [ia |-> NilEndpoint, path |-> NilPath]

\* a call in progress: op on endpoint e, at a point of its code; judged is
\* the destination and path getsDropped read from the endpoint
Frame(op, e, at, path) ==
  [op |-> op, e |-> e, at |-> at, path |-> path, size |-> 0, drop |-> FALSE,
   err |-> NoErr, consulted |-> FALSE, judged |-> NotJudged, wire |-> <<>>,
   ret |-> NoErr]

Idle == Frame("idle", NilEndpoint, "idle", NilPath)

\* zero value of sync.RWMutex
Unlocked == [writer |-> NoThread, readers |-> {}]

\* snet.UDPAddr: the destination and the path attached to it
UDPAddr(ia, path) == [ia |-> ia, path |-> path]

\* snet.UDPAddr{}: no destination, no path
ZeroIA == "0-0"
ZeroUDPAddr == UDPAddr(ZeroIA, NilPath)

InitState ==
  /\ pc = [t \in Threads |-> Idle]
  /\ elock = [e \in Endpoints |-> Unlocked]
  /\ alock = NoThread
  /\ dst = [e \in Endpoints |-> UDPAddr(e, NilPath)]
  /\ blockedPaths = MakeMap
  /\ blockedPathSets = [ia \in IAs |-> NilMap]
  /\ safePaths = [ia \in IAs |-> NilPath]
  /\ hadLoss = FALSE
  /\ counter = 0
  /\ wakeUp = 0
  /\ last = [op |-> "init"]
  /\ observe \in BOOLEAN
  /\ known = [ia \in IAs |-> {}]
  /\ outcome = [ia \in IAs |-> "none"]
  /\ firstSeen = [ia \in IAs |-> NilPath]
  /\ called = [ia \in IAs |-> FALSE]
  /\ seenAllow = FALSE
  /\ nCalls = 0
  /\ refBlocked = MakeMap

\* ----------------------------------------------------------- getsDropped
Judgement(drop, err, bp, had, cnt, wake) ==
  [drop |-> drop, err |-> err, bp |-> bp, hadLoss |-> had, counter |-> cnt,
   wakeUp |-> wake]

\* adv.getsDropped(end, buff): the call through the Adversary interface, on
\* an endpoint whose destination is ia and whose dst.GetPath() gives path
getsDropped(ia, path, n, getPathErr) ==
  CASE adv = "Ghost" ->
         Judgement(GhostGetsDropped.drop, GhostGetsDropped.err,
                   blockedPaths, hadLoss, counter, wakeUp)
    [] adv = "Simple" ->
         LET o == SimpleGetsDropped(blockedPaths, ia, path, getPathErr)
         IN  Judgement(o.drop, o.err, o.bp, hadLoss, counter, wakeUp)
    [] adv = "AllButOne" ->
         LET v == AllButOneGetsDropped(blockedPathSets, ia, path, getPathErr)
         IN  Judgement(v.drop, v.err, blockedPaths, hadLoss, counter, wakeUp)
    [] adv = "AllButOneLossy" ->
         LET v == AllButOneLossyGetsDropped(blockedPathSets, hadLoss, ia, path,
                                            getPathErr)
         IN  Judgement(v.drop, v.err, blockedPaths, v.hadLoss, counter, wakeUp)
    [] adv = "Lazy" ->
         LET o == LazyGetsDropped(blockedPaths, counter, ia, path, getPathErr)
         IN  Judgement(o.drop, o.err, o.bp, hadLoss, o.counter, o.wakeUp)
    [] adv = "AllButOneAdvanced" ->
         LET v == AllButOneAdvancedGetsDropped(blockedPathSets, ia, path, n,
                                               getPathErr)
         IN  Judgement(v.drop, v.err, blockedPaths, hadLoss, counter, wakeUp)

\* ------------------------------------------------------------------- Send
ErrDefaultPath == "SetDefaultPath failed"
ErrWrite == "WriteTo failed"

Min(a, b) == IF a < b THEN a ELSE b

\* calls a Lazy adversary answers before it starts judging
WakeUpCalls == IF adv = "Lazy" THEN LazyWakeUp ELSE 0

\* the state change of one adv.getsDropped(end, buff), with its history
Consult(ia, path, n, getPathErr) ==
  LET j == getsDropped(ia, path, n, getPathErr)
      judged == adv \in SimpleFamily /\ nCalls >= WakeUpCalls
      ref == SimpleGetsDropped(refBlocked, ia, path, getPathErr)
      d == AllButOneGetsDropped(blockedPathSets, ia, path, getPathErr)
  IN  /\ blockedPaths' = j.bp
      /\ hadLoss' = j.hadLoss
      /\ counter' = j.counter
      /\ wakeUp' = j.wakeUp
      /\ UNCHANGED <<adv, blockedPathSets, safePaths, observe, known, outcome>>
      /\ nCalls' = IF adv = "Lazy" THEN Min(nCalls + 1, MaxCalls) ELSE nCalls
      /\ called' = IF judged THEN [called EXCEPT ![ia] = TRUE] ELSE called
      /\ firstSeen' = IF judged /\ ~getPathErr /\ firstSeen[ia] = NilPath
                      THEN [firstSeen EXCEPT ![ia] = path] ELSE firstSeen
      /\ refBlocked' = IF judged THEN ref.bp ELSE refBlocked
      /\ seenAllow' = IF adv = "AllButOneLossy" THEN seenAllow \/ ~d.drop
                      ELSE seenAllow

\* the record of that call: the verdict, and where it stands in the history
Consulted(op, ia, path, n, getPathErr, ret, written, wire) ==
  LET j == getsDropped(ia, path, n, getPathErr)
      ref == SimpleGetsDropped(refBlocked, ia, path, getPathErr)
      d == AllButOneGetsDropped(blockedPathSets, ia, path, getPathErr)
  IN  [op |-> op, ia |-> ia, path |-> path, n |-> n, consulted |-> TRUE,
       getPathErr |-> getPathErr,
       drop |-> j.drop, err |-> j.err, ret |-> ret, written |-> written,
       wire |-> wire,
       nth |-> nCalls,
       judged |-> adv \in SimpleFamily /\ nCalls >= WakeUpCalls,
       firstCall |-> ~called[ia],
       first |-> firstSeen[ia] = NilPath,
       refDrop |-> ref.drop, refErr |-> ref.err,
       ddrop |-> d.drop, derr |-> d.err,
       firstAllow |-> ~seenAllow /\ ~d.drop]

\* adv.getsDropped(end, buff) as Send calls it, on an endpoint that has a path
GetsDropped(ia, path, n, getPathErr) ==
  /\ Consult(ia, path, n, getPathErr)
  /\ last' = Consulted("getsDropped", ia, path, n, getPathErr, NoErr, FALSE,
                        <<>>)

\* mutant: a dropped datagram is written all the same
sendAfterVerdictLeaks(drop, err, writeErr) ==
  [ret |-> IF drop THEN err ELSE IF writeErr THEN ErrWrite ELSE NoErr,
   written |-> TRUE]

\* what Send returns and whether it reached scionconn.WriteTo, given the
\* adversary's answer
sendAfterVerdict(drop, err, writeErr) ==
  IF drop
  THEN [ret |-> err, written |-> FALSE]
  ELSE [ret |-> IF writeErr THEN ErrWrite ELSE NoErr, written |-> TRUE]

\* scionconn.WriteTo(buff, &nend.dst): one datagram of n bytes for the
\* destination and path of the address
Datagram(ia, path, n) == [ia |-> ia, path |-> path, n |-> n]

\* bind.Send(buff, end, adv) on an endpoint with destination ia and path
\* path0 (NilPath: no path selected); def is what SetDefaultPath attaches
\* (NilPath: it fails)
Send(ia, path0, def, n, getPathErr, writeErr) ==
  IF path0 = NilPath /\ def = NilPath
  THEN /\ last' = [op |-> "Send", ia |-> ia, path |-> NilPath, n |-> n,
                    consulted |-> FALSE, ret |-> ErrDefaultPath,
                    written |-> FALSE, wire |-> <<>>]
       /\ UNCHANGED <<adv, advState, observe, history>>
  ELSE
    LET path == IF path0 = NilPath THEN def ELSE path0
        j == getsDropped(ia, path, n, getPathErr)
        s == sendAfterVerdict(j.drop, j.err, writeErr)
        wire == IF s.written THEN <<Datagram(ia, path, n)>> ELSE <<>>
    IN  /\ Consult(ia, path, n, getPathErr)
        /\ last' = Consulted("Send", ia, path, n, getPathErr, s.ret, s.written,
                              wire)

\* ------------------------------------------------------------ UpdatePaths
ProbeKind(probe) ==
  IF probe.proberErr THEN "proberErr"
  ELSE IF probe.statusErr THEN "statusErr"
  ELSE IF probe.statusMap = {} THEN "empty"
  ELSE "classified"

Called(end, paths, err, probed, kind, pre, oldSafe) ==
  [op |-> "UpdatePaths", ia |-> end, fps |-> Keys(paths), err |-> err,
   probed |-> probed, probe |-> kind, pre |-> pre, oldSafe |-> oldSafe]

\* adv.UpdatePaths(end, paths); r is one result chooseSafePath can give for
\* the kind of answer the prober gives
UpdatePaths(end, paths, answer, r) ==
  IF adv \notin AllButOneFamily
  THEN /\ last' = Called(end, paths, NoErr, FALSE, "none", "none", NilPath)
       /\ UNCHANGED <<adv, advState, observe, history>>
  ELSE IF end = NilEndpoint
  THEN /\ last' = Called(end, paths, ErrNilEndpoint, FALSE, "none", "none",
                         NilPath)
       /\ UNCHANGED <<adv, advState, observe, history>>
  ELSE
    LET u == AllButOneUpdatePaths(blockedPathSets, safePaths, end, paths, r)
        kind == IF u.probed THEN answer ELSE "none"
        pre == IF IsNil(blockedPathSets[end]) THEN "unknown"
               ELSE IF HasKey(paths, Fingerprint(safePaths[end]))
               THEN "safePresent" ELSE "safeGone"
    IN  /\ blockedPathSets' = u.b
        /\ safePaths' = u.s
        /\ known' = IF observe THEN [known EXCEPT ![end] = @ \cup Keys(paths)]
                    ELSE known
        /\ outcome' = [outcome EXCEPT ![end] =
                         IF kind \in {"proberErr", "statusErr", "empty"}
                         THEN "failed" ELSE "ok"]
        /\ last' = Called(end, paths, u.err, u.probed, kind, pre,
                          safePaths[end])
        /\ UNCHANGED <<adv, observe, blockedPaths, hadLoss, counter, wakeUp,
                       firstSeen, called, seenAllow, nCalls, refBlocked>>

\* ------------------------------------------------------------------- specs
\* only AllButOneAdvanced reads anything of the buffer (its length)
BufLensRead ==
  IF adv = "AllButOneAdvanced" THEN BufLens ELSE {0, MessageInitiationSize}

GetsDroppedStep ==
  \E ia \in IAs, path \in Paths, n \in BufLensRead, getPathErr \in BOOLEAN :
    GetsDropped(ia, path, n, getPathErr) /\ UNCHANGED conc

SendStep ==
  \E ia \in IAs, path0 \in Paths \cup {NilPath}, n \in BufLensRead,
     env \in {"ok", "getPathErr", "writeErr"} :
    \E def \in (IF path0 = NilPath THEN Paths \cup {NilPath} ELSE {NilPath}) :
      /\ Send(ia, path0, def, n, env = "getPathErr", env = "writeErr")
      /\ UNCHANGED conc

\* every (prober answer, chooseSafePath result) a path map admits, told
\* apart as far as UpdatePaths can tell them apart
ProbeCases ==
  [paths \in PathMaps |->
     UNION {{<<ProbeKind(probe), r>> : r \in chooseSafePath(paths, probe)} :
              probe \in ProbeOutcomes(paths)}]

\* the prober is reached only by an AllButOne adversary given an endpoint
UpdatePathsStep ==
  \E end \in IAs \cup {NilEndpoint}, paths \in PathMaps :
    /\ IF adv \in AllButOneFamily /\ end # NilEndpoint
       THEN \E c \in ProbeCases[paths] : UpdatePaths(end, paths, c[1], c[2])
       ELSE UpdatePaths(end, paths, "none", ProbeResult(EmptyFp, NilPath, NoErr))
    /\ UNCHANGED conc

Next == GetsDroppedStep \/ UpdatePathsStep

Init == adv = "AllButOne" /\ observe = FALSE /\ InitState

Spec == Init /\ [][Next]_vars

InitKnown == adv = "AllButOne" /\ observe = TRUE /\ InitState

SpecKnown == InitKnown /\ [][Next]_vars

InitLossy == adv = "AllButOneLossy" /\ observe = FALSE /\ InitState

SpecLossy == InitLossy /\ [][Next]_vars

InitAdvanced == adv = "AllButOneAdvanced" /\ observe = FALSE /\ InitState

SpecAdvanced == InitAdvanced /\ [][Next]_vars

InitSimple == adv = "Simple" /\ observe = FALSE /\ InitState

SpecSimple == InitSimple /\ [][Next]_vars

InitLazy == adv = "Lazy" /\ observe = FALSE /\ InitState

SpecLazy == InitLazy /\ [][Next]_vars

NextSend == SendStep \/ UpdatePathsStep

\* the adversaries Send is run with: the pass-through one and those that
\* judge by themselves (AllButOneLossy and AllButOneAdvanced report an error
\* only when the embedded AllButOne does)
SendAdversaries == {"Ghost", "Simple", "Lazy", "AllButOne"}

InitSend == adv \in SendAdversaries /\ observe = FALSE /\ InitState

SpecSend == InitSend /\ [][NextSend]_vars

\* chooseSafePath(paths, ia) on its own, for every path set and every answer
\* of the prober
ChooseStep ==
  \E paths \in PathMaps :
    \E probe \in ProbeOutcomes(paths) :
      \E r \in chooseSafePath(paths, probe) :
        /\ last' = [op |-> "chooseSafePath", paths |-> paths, probe |-> probe,
                     fp |-> r.fp, path |-> r.path, err |-> r.err]
        /\ UNCHANGED <<adv, advState, observe, history, conc>>

NextChoose == ChooseStep

InitChoose == adv = "AllButOne" /\ observe = FALSE /\ InitState

SpecChoose == InitChoose /\ [][NextChoose]_vars

\* ------------------------------------------- concurrent executions, locks
\* the adversaries above and the SimpleAdversary of the first conn/adversary.go
LockAdversaries == AdversaryKinds \cup {"SimpleEarly"}

ErrOp == "snet.OpError"
ErrRead == "ReadFrom failed"
ErrQuery == "QueryPaths failed"

\* mutant: Send never resolves a default path
IsEmptyNever(path) == FALSE

\* nend.dst.Path.IsEmpty()
IsEmpty(path) == path = NilPath

\* mutant: every locking adversary reads the path through nend.GetDstPath()
callsGetDstPathAll(kind) == kind # "Ghost"

\* whether getsDropped reads the path through the accessor nend.GetDstPath(),
\* which takes the endpoint's read lock, and not from the field nend.dst
callsGetDstPath(kind) == kind = "SimpleEarly"

\* nend.dst.String(): the text of the destination; the path is not part of it
String(addr) == <<"udpaddr", addr.ia>>

\* snet.ParseUDPAddr: a new address without a path
ParseUDPAddr(str) == UDPAddr(str[2], NilPath)

\* appnet.SetPath(addr, path)
SetPath(addr, path) == [addr EXCEPT !.path = path]

\* mutant: SendOver selects the path on the endpoint itself
dstAfterSendOverStored(addr, path) == SetPath(addr, path)

\* nend.dst after SendOver, which sets the path on a parsed copy
dstAfterSendOver(addr, path) == addr

\* mutant: every read error is returned
retriesNever(err) == FALSE

\* err.(*snet.OpError): ReceiveIP reads again
retries(err) == err = ErrOp

\* what one scionconn.ReadFrom can give: an error, or n bytes from a sender
\* (an snet.UDPAddr, with the path the datagram came over)
ReadOutcomes ==
  {[err |-> ErrOp, n |-> 0, from |-> NilEndpoint],
   [err |-> ErrRead, n |-> 0, from |-> NilEndpoint]}
  \cup {[err |-> NoErr, n |-> n,
          from |-> UDPAddr(ia, CHOOSE p \in Paths : TRUE)] :
          n \in {MessageResponseSize, MessageInitiationSize}, ia \in IAs}

\* what ReceiveIP's caller gets: nothing yet, or (size, &end, err)
Received(returned, size, end, err, nreads) ==
  [returned |-> returned, size |-> size, end |-> end, err |-> err,
   nreads |-> nreads]

\* bind.ReceiveIP(buff), given what its successive ReadFrom calls give; it
\* has not returned when the reads known so far all told it to read again
RECURSIVE ReceiveIPLoop(_, _)
ReceiveIPLoop(reads, k) ==
  IF reads = <<>> THEN Received(FALSE, 0, NilEndpoint, NoErr, k)
  ELSE LET r == Head(reads)
       IN  IF r.err # NoErr
           THEN IF retries(r.err) THEN ReceiveIPLoop(Tail(reads), k + 1)
                ELSE Received(TRUE, 0, NilEndpoint, r.err, k + 1)
           ELSE Received(TRUE, r.n, [dst |-> r.from], r.err, k + 1)

ReceiveIP(reads) == ReceiveIPLoop(reads, 0)

\* the verdicts the adversaries can give, over the records they can hold
SimpleRecords ==
  {MakeMap} \cup {MapPut(MakeMap, ia, p) : ia \in IAs, p \in Paths}

SimpleVerdicts ==
  {Verdict(o.drop, o.err) :
     o \in {SimpleGetsDropped(bp, ia, p, g) :
              bp \in SimpleRecords, ia \in IAs, p \in Paths, g \in BOOLEAN}}

AllButOneRecords ==
  {[ia \in IAs |-> m] : m \in {NilMap} \cup {PathMap({p}) : p \in Paths}}

AllButOneVerdicts ==
  {AllButOneGetsDropped(b, ia, p, g) :
     b \in AllButOneRecords, ia \in IAs, p \in Paths, g \in BOOLEAN}

\* the early SimpleAdversary: (true, err) or (fingerprints equal, err)
EarlyVerdicts == {Verdict(d, e) : d \in BOOLEAN, e \in {NoErr, ErrGetPath}}

VerdictsOf(kind) ==
  IF kind \in SimpleFamily THEN SimpleVerdicts
  ELSE IF kind = "SimpleEarly" THEN EarlyVerdicts
  ELSE AllButOneVerdicts

\* the path SetDefaultPath and SetDstPath attach: which one it is makes no
\* difference to the locks taken, so one path stands for all
AttachedPaths == {CHOOSE p \in Paths : TRUE}

\* buffer lengths of the datagrams sent: only AllButOneAdvanced reads them
SendLens ==
  IF adv = "AllButOneAdvanced" THEN {0, MessageInitiationSize} ELSE {0}

\* mutant: Lock never waits
CanLockAlways(e) == TRUE

\* sync.RWMutex: Lock waits for the writer and the readers to leave; RLock
\* waits for the writer, and for any Lock already waiting
CanLock(e) == elock[e].writer = NoThread /\ elock[e].readers = {}

CanRLock(e) ==
  /\ elock[e].writer = NoThread
  /\ ~\E u \in Threads : pc[u].at = "Lock" /\ pc[u].e = e

ReleaseW(e) == [elock EXCEPT ![e].writer = NoThread]

ReleaseR(e, t) == [elock EXCEPT ![e].readers = @ \ {t}]

Go(t, f) == pc' = [pc EXCEPT ![t] = f]

\* the call returns: its frame keeps what it returned, whether it asked the
\* adversary, what the adversary read and what was written
Return(f, ret) ==
  [Frame(f.op, f.e, "returned", NilPath) EXCEPT
     !.ret = ret, !.consulted = f.consulted, !.judged = f.judged,
     !.wire = f.wire]

\* Send after adv.getsDropped answered v: return on a drop, else go on to
\* scionconn.WriteTo
afterVerdict(f, v) ==
  IF v.drop
  THEN Return(f, sendAfterVerdict(TRUE, v.err, FALSE).ret)
  ELSE [f EXCEPT !.at = "WriteTo", !.drop = FALSE, !.err = v.err]

CanCall(t) == pc[t].at \in {"idle", "returned"}

data == <<adv, blockedPaths, blockedPathSets, safePaths, last, observe, history>>

lazyState == <<hadLoss, counter, wakeUp>>

CallSend(t) ==
  /\ CanCall(t)
  /\ \E e \in Endpoints, n \in SendLens :
       Go(t, [Frame("Send", e, "Lock", NilPath) EXCEPT !.size = n])
  /\ UNCHANGED <<data, lazyState, elock, alock, dst>>

\* adv.UpdatePaths(end, paths): only the AllButOne adversaries do anything
CallUpdatePaths(t) ==
  /\ CanCall(t)
  /\ \E end \in Endpoints \cup {NilEndpoint} :
       IF adv \notin AllButOneFamily
       THEN Go(t, Return(Frame("UpdatePaths", end, "", NilPath), NoErr))
       ELSE IF end = NilEndpoint
       THEN Go(t, Return(Frame("UpdatePaths", end, "", NilPath),
                         ErrNilEndpoint))
       ELSE Go(t, Frame("UpdatePaths", end, "RLock", NilPath))
  /\ UNCHANGED <<data, lazyState, elock, alock, dst>>

CallGetDstPath(t) ==
  /\ CanCall(t)
  /\ \E e \in Endpoints : Go(t, Frame("GetDstPath", e, "RLock", NilPath))
  /\ UNCHANGED <<data, lazyState, elock, alock, dst>>

CallSetDstPath(t) ==
  /\ CanCall(t)
  /\ \E e \in Endpoints, path \in AttachedPaths :
       Go(t, Frame("SetDstPath", e, "Lock", path))
  /\ UNCHANGED <<data, lazyState, elock, alock, dst>>

CallGetDstPaths(t) ==
  /\ CanCall(t)
  /\ \E e \in Endpoints : Go(t, Frame("GetDstPaths", e, "RLock", NilPath))
  /\ UNCHANGED <<data, lazyState, elock, alock, dst>>

\* nend.Lock() returns
AcquireLock(t) ==
  LET f == pc[t]
      next == IF f.op = "Send"
              THEN IF IsEmpty(dst[f.e].path) THEN "SetDefaultPath"
                   ELSE "getsDropped"
              ELSE IF f.op = "ClearDst" THEN "ClearDst"
              ELSE "SetPath"
  IN  /\ f.at = "Lock"
      /\ CanLock(f.e)
      /\ elock' = [elock EXCEPT ![f.e].writer = t]
      /\ Go(t, [f EXCEPT !.at = next])
      /\ UNCHANGED <<data, lazyState, alock, dst>>

\* nend.RLock() returns
AcquireRLock(t) ==
  LET f == pc[t]
      next == IF f.op = "UpdatePaths" THEN "adv.Lock"
              ELSE IF f.op = "GetDstPath" THEN "GetPath"
              ELSE IF f.op = "GetDstPaths" THEN "QueryPaths"
              ELSE "getsDropped.GetPath"
  IN  /\ f.at \in {"RLock", "getsDropped.RLock"}
      /\ CanRLock(f.e)
      /\ elock' = [elock EXCEPT ![f.e].readers = @ \cup {t}]
      /\ Go(t, [f EXCEPT !.at = next])
      /\ UNCHANGED <<data, lazyState, alock, dst>>

\* adversary.Lock() returns
AcquireAdversary(t) ==
  LET f == pc[t]
  IN  /\ f.at \in {"adv.Lock", "adv.Lock2"}
      /\ alock = NoThread
      /\ alock' = t
      /\ Go(t, [f EXCEPT !.at = IF f.at = "adv.Lock" THEN "adv.body"
                                 ELSE "adv.body2"])
      /\ UNCHANGED <<data, lazyState, elock, dst>>

\* appnet.SetDefaultPath(&nend.dst) returns: def is the path it attached, or
\* NilPath when it failed
SetDefaultPathReturns(t) ==
  LET f == pc[t]
  IN  /\ f.at = "SetDefaultPath"
      /\ \E def \in AttachedPaths \cup {NilPath} :
           IF def = NilPath
           THEN /\ Go(t, Return(f, ErrDefaultPath))
                /\ elock' = ReleaseW(f.e)
                /\ dst' = dst
           ELSE /\ Go(t, [f EXCEPT !.at = "getsDropped"])
                /\ elock' = elock
                /\ dst' = [dst EXCEPT ![f.e] = SetPath(@, def)]
      /\ UNCHANGED <<data, lazyState, alock>>

\* Send calls adv.getsDropped(end, buff): up to the adversary's first Lock
EnterGetsDropped(t) ==
  LET f == [pc[t] EXCEPT !.consulted = TRUE]
      v == IF adv = "Ghost" THEN GhostGetsDropped ELSE Verdict(FALSE, NoErr)
      answers == \/ adv = "Ghost"
                 \/ adv = "AllButOneAdvanced" /\ isHandshakeMsgSize(f.size)
  IN  /\ pc[t].at = "getsDropped"
      /\ IF answers
         THEN /\ Go(t, afterVerdict(f, v))
              /\ elock' = IF v.drop THEN ReleaseW(f.e) ELSE elock
         ELSE /\ Go(t, [f EXCEPT !.at = "adv.Lock"])
              /\ elock' = elock
      /\ UNCHANGED <<data, lazyState, alock, dst>>

\* the code run under the adversary's lock, up to the Unlock: getsDropped
\* (the first section of AllButOneLossy's and Lazy's) or UpdatePaths up to
\* chooseSafePath
AdversaryBody(t) ==
  LET f == pc[t]
      sleeps == adv = "Lazy" /\ asleep(counter, LazyWakeUp)
      read == [f EXCEPT !.judged = dst[f.e]]
  IN  /\ f.at = "adv.body"
      /\ hadLoss' = hadLoss
      /\ counter' = IF f.op = "Send" /\ sleeps THEN counter + 1 ELSE counter
      /\ wakeUp' = IF f.op = "Send" /\ adv = "Lazy" THEN LazyWakeUp ELSE wakeUp
      /\ IF f.op = "UpdatePaths"
         THEN \E probes \in BOOLEAN :
                IF probes
                THEN /\ Go(t, [f EXCEPT !.at = "probing"])
                     /\ UNCHANGED <<elock, alock>>
                ELSE /\ Go(t, Return(f, NoErr))
                     /\ alock' = NoThread
                     /\ elock' = ReleaseR(f.e, t)
         ELSE IF callsGetDstPath(adv)
         THEN /\ Go(t, [f EXCEPT !.at = "getsDropped.RLock"])
              /\ UNCHANGED <<elock, alock>>
         ELSE IF adv = "AllButOneLossy"
         THEN \E v \in AllButOneVerdicts :
                /\ Go(t, [read EXCEPT !.at = "adv.Lock2", !.drop = v.drop,
                                      !.err = v.err])
                /\ alock' = NoThread
                /\ elock' = elock
         ELSE IF adv = "Lazy"
         THEN /\ alock' = NoThread
              /\ elock' = elock
              /\ IF sleeps THEN Go(t, afterVerdict(f, Verdict(FALSE, NoErr)))
                 ELSE Go(t, [f EXCEPT !.at = "adv.Lock2"])
         ELSE \E v \in VerdictsOf(adv) :
                /\ Go(t, afterVerdict(read, v))
                /\ alock' = NoThread
                /\ elock' = IF v.drop THEN ReleaseW(f.e) ELSE elock
      /\ UNCHANGED <<data, dst>>

\* the second section under the adversary's lock: AllButOneLossy's own, or
\* the embedded SimpleAdversary's of Lazy
AdversaryBody2(t) ==
  LET lossy == adv = "AllButOneLossy"
      f == IF lossy THEN pc[t] ELSE [pc[t] EXCEPT !.judged = dst[pc[t].e]]
      forced == lossy /\ forcesLoss(f.drop, hadLoss)
  IN  /\ pc[t].at = "adv.body2"
      /\ hadLoss' = (hadLoss \/ forced)
      /\ \E v \in (IF lossy THEN {Verdict(f.drop \/ forced, f.err)}
                   ELSE SimpleVerdicts) :
           /\ Go(t, afterVerdict(f, v))
           /\ elock' = IF v.drop THEN ReleaseW(f.e) ELSE elock
      /\ alock' = NoThread
      /\ UNCHANGED <<data, counter, wakeUp, dst>>

\* chooseSafePath returns inside UpdatePaths, which then returns
ProbingReturns(t) ==
  LET f == pc[t]
  IN  /\ f.at = "probing"
      /\ \E err \in {NoErr, ErrProber, ErrStatuses} : Go(t, Return(f, err))
      /\ alock' = NoThread
      /\ elock' = ReleaseR(f.e, t)
      /\ UNCHANGED <<data, lazyState, dst>>

\* scionconn.WriteTo(buff, &nend.dst) returns, and with it Send
WriteToReturns(t) ==
  LET f == pc[t]
  IN  /\ f.at = "WriteTo"
      /\ \E writeErr \in BOOLEAN :
           Go(t, [Return(f, sendAfterVerdict(FALSE, f.err, writeErr).ret)
                    EXCEPT !.wire = <<Datagram(dst[f.e].ia, dst[f.e].path,
                                               f.size)>>])
      /\ elock' = ReleaseW(f.e)
      /\ UNCHANGED <<data, lazyState, alock, dst>>

\* end.dst.GetPath() under the read lock: GetDstPath returns, to its caller
\* or into the getsDropped that called it
GetPathReturns(t) ==
  LET f == pc[t]
  IN  /\ f.at \in {"GetPath", "getsDropped.GetPath"}
      /\ IF f.op = "GetDstPath"
         THEN /\ Go(t, Return(f, NoErr))
              /\ elock' = ReleaseR(f.e, t)
              /\ alock' = alock
         ELSE \E v \in VerdictsOf(adv) :
                /\ Go(t, afterVerdict([f EXCEPT !.judged = dst[f.e]], v))
                /\ elock' = [elock EXCEPT
                               ![f.e].readers = @ \ {t},
                               ![f.e].writer = IF v.drop THEN NoThread ELSE @]
                /\ alock' = NoThread
      /\ UNCHANGED <<data, lazyState, dst>>

\* appnet.SetPath(&end.dst, path) under the write lock
SetPathReturns(t) ==
  LET f == pc[t]
  IN  /\ f.at = "SetPath"
      /\ Go(t, Return(f, NoErr))
      /\ dst' = [dst EXCEPT ![f.e] = SetPath(@, f.path)]
      /\ elock' = ReleaseW(f.e)
      /\ UNCHANGED <<data, lazyState, alock>>

\* appnet.QueryPaths(end.dst.IA) returns under the read lock
QueryPathsReturns(t) ==
  LET f == pc[t]
  IN  /\ f.at = "QueryPaths"
      /\ \E err \in {NoErr, ErrQuery} : Go(t, Return(f, err))
      /\ elock' = ReleaseR(f.e, t)
      /\ UNCHANGED <<data, lazyState, alock, dst>>

\* ---------------------------------------------- the bind, call by call
\* sequences of at most n elements of S
RECURSIVE SeqsUpTo(_, _)
SeqsUpTo(S, n) ==
  IF n = 0 THEN {<<>>}
  ELSE LET shorter == SeqsUpTo(S, n - 1)
       IN  shorter \cup {Append(q, x) : q \in shorter, x \in S}

\* bind.SendOver(buff, end, path): under the endpoint's lock, the path is
\* set on a copy parsed from the text of nend.dst, and the copy is written to
SendOver(e, path, n, writeErr) ==
  LET addr == SetPath(ParseUDPAddr(String(dst[e])), path)
  IN  /\ last' = [op |-> "SendOver", e |-> e, path |-> path, n |-> n,
                   wire |-> <<Datagram(addr.ia, addr.path, n)>>,
                   ret |-> IF writeErr THEN ErrWrite ELSE NoErr]
      /\ dst' = [dst EXCEPT ![e] = dstAfterSendOver(@, path)]
      /\ UNCHANGED <<adv, advState, observe, history, pc, elock, alock>>

SendOverStep ==
  \E e \in Endpoints, path \in Paths, n \in {0, MessageInitiationSize},
     writeErr \in BOOLEAN :
    SendOver(e, path, n, writeErr)

\* end.SetDstPath(path)
SetDstPathStep ==
  \E e \in Endpoints, path \in Paths :
    /\ last' = [op |-> "SetDstPath", e |-> e, path |-> path]
    /\ dst' = [dst EXCEPT ![e] = SetPath(@, path)]
    /\ UNCHANGED <<adv, advState, observe, history, pc, elock, alock>>

ReceiveIPStep ==
  \E reads \in SeqsUpTo(ReadOutcomes, MaxReads) :
    /\ last' = [op |-> "ReceiveIP", reads |-> reads, got |-> ReceiveIP(reads)]
    /\ UNCHANGED <<adv, advState, observe, history, conc>>

NextBind == SendOverStep \/ SetDstPathStep \/ ReceiveIPStep

InitBind == adv = "Ghost" /\ observe = FALSE /\ InitState

SpecBind == InitBind /\ [][NextBind]_vars

\* end.SetDstPath(path) with any path of the destination
CallSetDstPathAny(t) ==
  /\ CanCall(t)
  /\ \E e \in Endpoints, path \in Paths :
       Go(t, Frame("SetDstPath", e, "Lock", path))
  /\ UNCHANGED <<data, lazyState, elock, alock, dst>>

CallClearDst(t) ==
  /\ CanCall(t)
  /\ \E e \in Endpoints : Go(t, Frame("ClearDst", e, "Lock", NilPath))
  /\ UNCHANGED <<data, lazyState, elock, alock, dst>>

\* end.dst = snet.UDPAddr{} under the write lock
ClearDstReturns(t) ==
  LET f == pc[t]
  IN  /\ f.at = "ClearDst"
      /\ Go(t, Return(f, NoErr))
      /\ dst' = [dst EXCEPT ![f.e] = ZeroUDPAddr]
      /\ elock' = ReleaseW(f.e)
      /\ UNCHANGED <<data, lazyState, alock>>

\* Send, SetDstPath and ClearDst racing for the endpoints
NextRace ==
  \E t \in Threads :
    \/ CallSend(t)
    \/ CallSetDstPathAny(t)
    \/ CallClearDst(t)
    \/ AcquireLock(t)
    \/ AcquireAdversary(t)
    \/ SetDefaultPathReturns(t)
    \/ EnterGetsDropped(t)
    \/ AdversaryBody(t)
    \/ AdversaryBody2(t)
    \/ WriteToReturns(t)
    \/ SetPathReturns(t)
    \/ ClearDstReturns(t)

\* an adversary that reads the path in its only critical section, and one
\* that reads it in its second
RaceAdversaries == {"AllButOne", "Lazy"}

InitRace == adv \in RaceAdversaries /\ observe = FALSE /\ InitState

SpecRace == InitRace /\ [][NextRace]_vars

\* --------------------------- LazyAdversary.getsDropped, section by section
\* mutant: the wake-up phase does not count its calls
wakeUpCountStuck(cnt) == cnt

\* adversary.counter++
wakeUpCount(cnt) == cnt + 1

\* the answer of getsDropped to the caller
Answer(t, ia, path, getPathErr, drop, err, ref) ==
  [op |-> "Lazy.getsDropped", t |-> t, ia |-> ia, path |-> path,
   getPathErr |-> getPathErr, drop |-> drop, err |-> err,
   refDrop |-> ref.drop, refErr |-> ref.err,
   nth |-> nCalls, counter |-> counter]

\* the same call made on a LazyAdversary that has answered, one call after
\* the other, the calls answered so far
Sequential(ia, path, getPathErr) ==
  LazyGetsDropped(refBlocked, Min(nCalls, LazyWakeUp), ia, path, getPathErr)

\* a session calls adversary.getsDropped(end, buffer) on the one LazyAdversary
CallGetsDropped(t) ==
  /\ CanCall(t)
  /\ \E e \in Endpoints, path \in Paths :
       Go(t, Frame("getsDropped", e, "adv.Lock", path))
  /\ UNCHANGED <<data, lazyState, elock, alock, dst>>

\* from adversary.Lock() to the Unlock of the wake-up test: the call is
\* answered (false, nil) and counted, or goes on to SimpleAdversary's code
LazyWakeUpSection(t) ==
  LET f == pc[t]
      ref == Sequential(f.e, f.path, FALSE)
  IN  /\ f.op = "getsDropped"
      /\ f.at = "adv.body"
      /\ alock = t
      /\ alock' = NoThread
      /\ wakeUp' = LazyWakeUp
      /\ hadLoss' = hadLoss
      /\ IF asleep(counter, LazyWakeUp)
         THEN /\ counter' = wakeUpCount(counter)
              /\ Go(t, Return(f, NoErr))
              /\ last' = Answer(t, f.e, f.path, FALSE, FALSE, NoErr, ref)
              /\ nCalls' = Min(nCalls + 1, MaxCalls)
              /\ refBlocked' = ref.bp
         ELSE /\ counter' = counter
              /\ Go(t, [f EXCEPT !.at = "adv.Lock2"])
              /\ UNCHANGED <<last, nCalls, refBlocked>>
      /\ UNCHANGED <<adv, blockedPaths, blockedPathSets, safePaths, observe,
                     known, outcome, firstSeen, called, seenAllow, elock, dst>>

\* adversary.SimpleAdversary.getsDropped(end, buffer), from its Lock to its
\* Unlock; getPathErr is what nend.dst.GetPath() answers
LazySimpleSection(t) ==
  LET f == pc[t]
  IN  /\ f.op = "getsDropped"
      /\ f.at = "adv.body2"
      /\ alock = t
      /\ alock' = NoThread
      /\ \E getPathErr \in BOOLEAN :
           LET o == SimpleGetsDropped(blockedPaths, f.e, f.path, getPathErr)
               ref == Sequential(f.e, f.path, getPathErr)
           IN  /\ blockedPaths' = o.bp
               /\ Go(t, Return(f, o.err))
               /\ last' = Answer(t, f.e, f.path, getPathErr, o.drop, o.err, ref)
               /\ refBlocked' = ref.bp
      /\ nCalls' = Min(nCalls + 1, MaxCalls)
      /\ UNCHANGED <<adv, blockedPathSets, safePaths, lazyState, observe,
                     known, outcome, firstSeen, called, seenAllow, elock, dst>>

NextLazyCalls ==
  \E t \in Threads :
    \/ CallGetsDropped(t)
    \/ AcquireAdversary(t)
    \/ LazyWakeUpSection(t)
    \/ LazySimpleSection(t)

InitLazyCalls == adv = "Lazy" /\ observe = FALSE /\ InitState

SpecLazyCalls == InitLazyCalls /\ [][NextLazyCalls]_vars

NextLocks ==
  \E t \in Threads :
    \/ CallSend(t)
    \/ CallUpdatePaths(t)
    \/ CallGetDstPath(t)
    \/ CallSetDstPath(t)
    \/ CallGetDstPaths(t)
    \/ AcquireLock(t)
    \/ AcquireRLock(t)
    \/ AcquireAdversary(t)
    \/ SetDefaultPathReturns(t)
    \/ EnterGetsDropped(t)
    \/ AdversaryBody(t)
    \/ AdversaryBody2(t)
    \/ ProbingReturns(t)
    \/ WriteToReturns(t)
    \/ GetPathReturns(t)
    \/ SetPathReturns(t)
    \/ QueryPathsReturns(t)

InitLocks == adv \in LockAdversaries /\ observe = FALSE /\ InitState

SpecLocks == InitLocks /\ [][NextLocks]_vars

\* ------------------------------------------------------------- properties
Tracked(ia) == ~IsNil(blockedPathSets[ia])

Blocked(ia, fp) == HasKey(blockedPathSets[ia], fp)

Unblocked(ia, fps) == {fp \in fps : ~Blocked(ia, fp)}

ProbeFailures == {"proberErr", "statusErr", "empty"}

\* C1: after an UpdatePaths that returns no error for a destination and a
\* path set of at least two paths, exactly one fingerprint of the supplied
\* set is absent from the destination's blocked set.
C1_OneUnblockedAfterNilReturn ==
  (/\ last.op = "UpdatePaths"
   /\ last.ia \in IAs
   /\ last.err = NoErr
   /\ Cardinality(last.fps) >= 2)
  => Cardinality(Unblocked(last.ia, last.fps)) = 1

\* C2: for every tracked destination that has received an update, exactly
\* one of the paths ever reported for it is let through by getsDropped.
C2_OneKnownPathUnblocked ==
  \A ia \in IAs :
    (known[ia] # {} /\ Tracked(ia))
    => Cardinality({p \in Paths :
                      /\ Fingerprint(p) \in known[ia]
                      /\ ~AllButOneGetsDropped(blockedPathSets, ia, p, FALSE).drop})
       = 1

\* C3: a prober that cannot be created, a probing error or an empty
\* classification clears the destination's record, and from then until the
\* next UpdatePaths for the destination every getsDropped for it drops.
C3_FailClosed ==
  /\ (last.op = "UpdatePaths" /\ last.probe \in ProbeFailures)
     => (last.probed /\ ~Tracked(last.ia))
  /\ \A ia \in IAs :
       outcome[ia] = "failed"
       => /\ ~Tracked(ia)
          /\ \A p \in Paths, e \in BOOLEAN :
               AllButOneGetsDropped(blockedPathSets, ia, p, e).drop
  /\ (last.op = "getsDropped" /\ outcome[last.ia] = "failed") => last.drop

\* a drop for a destination whose last update failed in probing, while the
\* other destination is tracked
C3_Witness ==
  /\ last.op = "getsDropped"
  /\ outcome[last.ia] = "failed"
  /\ last.drop
  /\ ~last.getPathErr
  /\ \E ia \in IAs : Tracked(ia)

\* C4: an update of a tracked destination whose new path set holds a path
\* with the safe path's fingerprint keeps that path safe, does not probe,
\* and blocks every other path of the new set.
C4_Continuity ==
  (last.op = "UpdatePaths" /\ last.pre = "safePresent")
  => /\ last.err = NoErr
     /\ ~last.probed
     /\ Tracked(last.ia)
     /\ safePaths[last.ia] # NilPath
     /\ Fingerprint(safePaths[last.ia]) = Fingerprint(last.oldSafe)
     /\ Fingerprint(safePaths[last.ia]) \in last.fps
     /\ \A fp \in last.fps \ {Fingerprint(safePaths[last.ia])} :
          Blocked(last.ia, fp)

C4_Witness ==
  /\ last.op = "UpdatePaths"
  /\ last.pre = "safePresent"
  /\ Cardinality(last.fps) >= 2
  /\ ~last.probed
  /\ Unblocked(last.ia, last.fps) = {Fingerprint(last.oldSafe)}

\* C5 as stated: getsDropped drops iff the destination has no record or the
\* path's fingerprint is in the destination's own blocked set.
C5_DropIffUnknownOrBlocked ==
  last.op = "getsDropped"
  => (last.drop <=> (~Tracked(last.ia)
                     \/ Blocked(last.ia, Fingerprint(last.path))))

\* C5 amended: getsDropped drops iff GetPath fails (returning that error),
\* the destination has no record, or the path's fingerprint is in that
\* destination's own blocked set; without a GetPath error the error is nil.
C5_DropIffErrorUnknownOrBlocked ==
  last.op = "getsDropped"
  => /\ last.drop <=> (\/ last.getPathErr
                        \/ ~Tracked(last.ia)
                        \/ Blocked(last.ia, Fingerprint(last.path)))
     /\ last.err = (IF last.getPathErr THEN ErrGetPath ELSE NoErr)

\* a path let through for one destination while another destination blocks it
C5_Witness ==
  /\ last.op = "getsDropped"
  /\ ~last.drop
  /\ Tracked(last.ia)
  /\ \E ib \in IAs \ {last.ia} : Blocked(ib, Fingerprint(last.path))

\* C6 as stated: the first call for a destination drops and records its
\* path; later calls drop iff their fingerprint equals the recorded one.
C6_FirstCallDrops ==
  last.op = "getsDropped"
  => IF last.firstCall
     THEN /\ last.drop
          /\ HasKey(blockedPaths, last.ia)
          /\ MapGet(blockedPaths, last.ia) = last.path
     ELSE /\ HasKey(blockedPaths, last.ia)
          /\ last.drop <=> (Fingerprint(last.path)
                             = Fingerprint(MapGet(blockedPaths, last.ia)))

\* the record of SimpleAdversary is the history's first judged path
RecordIsFirstSeen ==
  \A ia \in IAs :
    /\ HasKey(blockedPaths, ia) <=> firstSeen[ia] # NilPath
    /\ HasKey(blockedPaths, ia) => MapGet(blockedPaths, ia) = firstSeen[ia]

\* C6 amended: a call whose GetPath fails returns (false, err) and records
\* nothing; the first call for a destination whose GetPath succeeds drops
\* and records its path; every later call whose GetPath succeeds drops iff
\* its fingerprint equals the recorded one; the record never changes
\* (UpdatePaths is a no-op).
C6_FirstJudgedCallDrops ==
  /\ RecordIsFirstSeen
  /\ last.op = "UpdatePaths" => last.err = NoErr
  /\ last.op = "getsDropped"
     => IF last.getPathErr
        THEN ~last.drop /\ last.err = ErrGetPath
        ELSE /\ last.err = NoErr
             /\ firstSeen[last.ia] # NilPath
             /\ IF last.first
                THEN last.drop /\ firstSeen[last.ia] = last.path
                ELSE last.drop <=> (Fingerprint(last.path)
                                    = Fingerprint(firstSeen[last.ia]))

\* a later call on another path than the recorded one passes, after a call
\* for the other destination recorded that other path
C6_Witness ==
  /\ last.op = "getsDropped"
  /\ ~last.getPathErr
  /\ ~last.first
  /\ ~last.drop
  /\ \E ib \in IAs \ {last.ia} : firstSeen[ib] = last.path

\* C7: the first call the embedded AllButOneAdversary would let through is
\* dropped; every other call returns what the embedded adversary returns.
C7_FirstAllowedCallLost ==
  /\ hadLoss = seenAllow
  /\ last.op = "getsDropped"
     => /\ last.err = last.derr
        /\ IF last.firstAllow THEN last.drop ELSE last.drop = last.ddrop

\* a call let through after the one-shot loss was spent
C7_Witness ==
  /\ last.op = "getsDropped"
  /\ ~last.firstAllow
  /\ ~last.ddrop
  /\ ~last.drop
  /\ hadLoss

\* C8 as stated: the first LazyWakeUp calls return (false, nil) and record
\* nothing; later calls answer as a fresh SimpleAdversary fed only those
\* later calls, so the first of them for each destination drops and records.
C8_LazyThenSimple ==
  /\ nCalls <= LazyWakeUp => blockedPaths = MakeMap
  /\ blockedPaths = refBlocked
  /\ last.op = "getsDropped"
     => IF last.nth < LazyWakeUp
        THEN ~last.drop /\ last.err = NoErr
        ELSE /\ last.drop = last.refDrop
             /\ last.err = last.refErr
             /\ last.firstCall
                => /\ last.drop
                   /\ HasKey(blockedPaths, last.ia)
                   /\ MapGet(blockedPaths, last.ia) = last.path

\* C8 amended: as stated, except that it is the first later call whose
\* GetPath succeeds that drops and records its path for a destination; a
\* call whose GetPath fails returns (false, err) and records nothing.
C8_LazyThenSimpleJudged ==
  /\ nCalls <= LazyWakeUp => blockedPaths = MakeMap
  /\ blockedPaths = refBlocked
  /\ RecordIsFirstSeen
  /\ last.op = "getsDropped"
     => IF last.nth < LazyWakeUp
        THEN ~last.drop /\ last.err = NoErr
        ELSE /\ last.drop = last.refDrop
             /\ last.err = last.refErr
             /\ last.getPathErr => (~last.drop /\ last.err = ErrGetPath)
             /\ (last.first /\ ~last.getPathErr)
                => /\ last.drop
                   /\ HasKey(blockedPaths, last.ia)
                   /\ MapGet(blockedPaths, last.ia) = last.path

\* the first judged call after the wake-up phase drops and records
C8_Witness ==
  /\ last.op = "getsDropped"
  /\ last.nth = LazyWakeUp
  /\ last.drop
  /\ MapGet(blockedPaths, last.ia) = last.path

HandshakeSizes ==
  {MessageInitiationSize, MessageResponseSize, MessageCookieReplySize,
   MessageInitiationMultSize}

\* C9: a buffer of a handshake-message size is never dropped, whatever the
\* blocking state; any other buffer gets AllButOneAdversary's verdict.
C9_HandshakeExempt ==
  last.op = "getsDropped"
  => IF last.n \in HandshakeSizes
     THEN ~last.drop /\ last.err = NoErr
     ELSE last.drop = last.ddrop /\ last.err = last.derr

\* a multipath initiation let through on a blocked path
C9_Witness ==
  /\ last.op = "getsDropped"
  /\ last.n = MessageInitiationMultSize
  /\ Tracked(last.ia)
  /\ Blocked(last.ia, Fingerprint(last.path))
  /\ ~last.drop

\* C10: when the adversary reports an error, Send returns it and nothing is
\* handed to the socket.
C10_SendReturnsAdversaryError ==
  (last.op = "Send" /\ last.consulted /\ last.err # NoErr)
  => (last.ret = last.err /\ ~last.written)

\* C11: when the adversary answers (true, nil) Send writes nothing and
\* returns nil; when it answers (false, nil) Send writes the datagram once,
\* to the endpoint's destination over the endpoint's current path, and
\* returns the result of that write.
C11_DropSilentElseTransmitOnce ==
  (last.op = "Send" /\ last.consulted /\ last.err = NoErr)
  => IF last.drop
     THEN last.wire = <<>> /\ ~last.written /\ last.ret = NoErr
     ELSE /\ last.wire = <<Datagram(last.ia, last.path, last.n)>>
          /\ last.written
          /\ last.ret \in {NoErr, ErrWrite}

\* a datagram let through by AllButOneAdversary on the safe path of a
\* tracked destination
C11_Witness ==
  /\ adv = "AllButOne"
  /\ last.op = "Send"
  /\ last.consulted
  /\ ~last.drop
  /\ last.err = NoErr
  /\ last.ret = NoErr
  /\ last.path = safePaths[last.ia]
  /\ Len(last.wire) = 1

\* C16: an UpdatePaths call for one destination, whether it succeeds or
\* fails in probing, leaves the blocked set and the safe path of every other
\* destination as they were.
C16_FailureIsolation ==
  [][last'.op = "UpdatePaths"
     => \A ib \in IAs \ {last'.ia} :
          /\ blockedPathSets'[ib] = blockedPathSets[ib]
          /\ safePaths'[ib] = safePaths[ib]]_vars

\* an update that failed in probing and lost its destination's record while
\* the other destination is tracked with a safe path and a blocked path
C16_Witness ==
  /\ last.op = "UpdatePaths"
  /\ last.probe \in ProbeFailures
  /\ last.pre = "safeGone"
  /\ ~Tracked(last.ia)
  /\ \E ib \in IAs \ {last.ia} :
       /\ Tracked(ib)
       /\ safePaths[ib] # NilPath
       /\ blockedPathSets[ib].kv # {}

\* C17: GhostAdversary answers (false, nil) to every getsDropped, returns
\* nil from every UpdatePaths, and never changes any state.
C17_GhostPassThrough ==
  adv = "Ghost"
  => /\ (last.op = "Send" /\ last.consulted)
        => (~last.drop /\ last.err = NoErr)
     /\ last.op = "UpdatePaths" => last.err = NoErr
     /\ blockedPaths = MakeMap
     /\ \A ia \in IAs : ~Tracked(ia) /\ safePaths[ia] = NilPath
     /\ ~hadLoss /\ counter = 0 /\ wakeUp = 0

\* the pass-through adversary lets a datagram out on an endpoint whose
\* GetPath fails
C17_Witness ==
  /\ adv = "Ghost"
  /\ last.op = "Send"
  /\ last.consulted
  /\ last.getPathErr
  /\ ~last.drop
  /\ Len(last.wire) = 1

\* the classification the prober gave to a path
Classified(probe, path) == StatusOf(probe.statusMap, PathKey(path))

\* C20: when probing succeeds with a non-empty classification, chooseSafePath
\* returns a path classified alive if the supplied set has one, else a path
\* classified timeout if it has one, else some path of the set; the returned
\* fingerprint is that path's key in the supplied set.
C20_AliveBeatsTimeout ==
  (/\ last.op = "chooseSafePath"
   /\ ~last.probe.proberErr
   /\ ~last.probe.statusErr
   /\ last.probe.statusMap # {})
  => LET ps == {e[2] : e \in last.paths.kv}
         alive == {p \in ps : Classified(last.probe, p) = StatusAlive}
         timeout == {p \in ps : Classified(last.probe, p) = StatusTimeout}
     IN  /\ last.err = NoErr
         /\ <<last.fp, last.path>> \in last.paths.kv
         /\ alive # {} => last.path \in alive
         /\ (alive = {} /\ timeout # {}) => last.path \in timeout

\* a live path is returned from a set that also holds a timed-out path and
\* a path without classification
C20_Witness ==
  /\ last.op = "chooseSafePath"
  /\ last.err = NoErr
  /\ Cardinality(last.paths.kv) = 3
  /\ Classified(last.probe, last.path) = StatusAlive
  /\ \E e \in last.paths.kv : Classified(last.probe, e[2]) = StatusTimeout
  /\ \E e \in last.paths.kv : Classified(last.probe, e[2]) = ZeroStatus

\* points of a call inside adv.getsDropped
CallbackPoints ==
  {"getsDropped", "adv.Lock", "adv.body", "adv.Lock2", "adv.body2",
   "getsDropped.RLock", "getsDropped.GetPath"}

\* points of a call inside a call to the network or to the SCION daemon
NetworkPoints == {"SetDefaultPath", "WriteTo", "QueryPaths", "probing"}

HoldsEndpoint(t) ==
  \E e \in Endpoints : elock[e].writer = t \/ t \in elock[e].readers

RequestsEndpoint(t) == pc[t].at \in {"Lock", "RLock", "getsDropped.RLock"}

\* t cannot go on before u releases a lock or gets the lock it waits for
WaitsFor(t, u) ==
  LET f == pc[t]
  IN  \/ /\ f.at = "Lock"
         /\ elock[f.e].writer = u \/ u \in elock[f.e].readers
      \/ /\ f.at \in {"RLock", "getsDropped.RLock"}
         /\ \/ elock[f.e].writer = u
            \/ pc[u].at = "Lock" /\ pc[u].e = f.e
      \/ /\ f.at \in {"adv.Lock", "adv.Lock2"}
         /\ alock = u

\* C12: Send resolves and attaches a default path before it asks the
\* adversary; when the resolution fails it returns that error without
\* having called getsDropped or written anything, no adversary state
\* changes, and the endpoint's lock is released.
C12_DefaultPathBeforeAdversary ==
  /\ [](\A t \in Threads :
          LET f == pc[t]
          IN  /\ (f.op = "Send" /\ f.at \in CallbackPoints \cup {"WriteTo"})
                 => dst[f.e].path # NilPath
              /\ f.at = "SetDefaultPath"
                 => (~f.consulted /\ dst[f.e].path = NilPath)
              /\ (f.op = "Send" /\ f.at = "returned"
                  /\ f.ret = ErrDefaultPath)
                 => /\ ~f.consulted
                    /\ f.wire = <<>>
                    /\ elock[f.e].writer # t)
  /\ [][\A t \in Threads :
          (pc[t].at = "SetDefaultPath" /\ pc'[t].at = "returned")
          => /\ pc'[t].ret = ErrDefaultPath
             /\ UNCHANGED <<advState, alock, dst>>
             /\ elock'[pc[t].e] = Unlocked]_vars

\* a Send that failed to resolve a default path has returned, its endpoint
\* unlocked and still without a path, while the other execution holds the
\* adversary's lock
C12_Witness ==
  \E t \in Threads :
    /\ pc[t].op = "Send"
    /\ pc[t].at = "returned"
    /\ pc[t].ret = ErrDefaultPath
    /\ dst[pc[t].e].path = NilPath
    /\ elock[pc[t].e] = Unlocked
    /\ alock \in Threads \ {t}

\* C13: getsDropped, called from Send under the endpoint's write lock,
\* never asks for that endpoint's lock, so no Send waits for a lock it
\* holds itself.
C13_GetsDroppedNeverLocksEndpoint ==
  \A t \in Threads :
    /\ pc[t].at \in CallbackPoints => ~RequestsEndpoint(t)
    /\ ~WaitsFor(t, t)

C15_NoLockAcrossNetworkOrCallback ==
  \A t \in Threads :
    HoldsEndpoint(t) => pc[t].at \notin NetworkPoints \cup CallbackPoints

C19_ReceiveRetriesTransient ==
  last.op = "ReceiveIP"
  => LET reads == last.reads
         got == last.got
         final == {k \in 1..Len(reads) :
                     /\ reads[k].err # ErrOp
                     /\ \A j \in 1..(k - 1) : reads[j].err = ErrOp}
     IN  /\ got.err # ErrOp
         /\ got.returned <=> final # {}
         /\ \A k \in final :
              /\ got.nreads = k
              /\ got.err = reads[k].err
              /\ IF reads[k].err = NoErr
                 THEN got.size = reads[k].n /\ got.end = [dst |-> reads[k].from]
                 ELSE got.size = 0 /\ got.end = NilEndpoint

\* a datagram returned by the read after one that failed with an
\* snet.OpError
C19_Witness ==
  /\ last.op = "ReceiveIP"
  /\ last.got.returned
  /\ last.got.err = NoErr
  /\ last.got.nreads = 2
  /\ last.reads[1].err = ErrOp
  /\ last.got.size = MessageInitiationSize
  /\ last.got.end = [dst |-> last.reads[2].from]

\* C21: a destination whose last UpdatePaths ended in a fail-closed reset is
\* Unknown, and the next UpdatePaths for it is handled as a first update: it
\* probes; when the probe classifies the paths the destination is tracked
\* and its blocked set is exactly the new path set minus the chosen safe
\* path; when the probe fails the destination stays Unknown.
C21_ResetThenFirstUpdate ==
  [][\A ia \in IAs :
       (/\ outcome[ia] = "failed"
        /\ last'.op = "UpdatePaths"
        /\ last'.ia = ia)
       => /\ ~Tracked(ia)
          /\ last'.pre = "unknown"
          /\ last'.probed
          /\ IF last'.probe = "classified"
             THEN /\ last'.err = NoErr
                  /\ ~IsNil(blockedPathSets'[ia])
                  /\ safePaths'[ia] # NilPath
                  /\ Fingerprint(safePaths'[ia]) \in last'.fps
                  /\ Keys(blockedPathSets'[ia])
                       = last'.fps \ {Fingerprint(safePaths'[ia])}
             ELSE IsNil(blockedPathSets'[ia])]_vars

\* a destination tracked again after a reset, with a new path set that
\* leaves out a path reported before the reset
C21_Witness ==
  /\ last.op = "UpdatePaths"
  /\ last.ia \in IAs
  /\ last.pre = "unknown"
  /\ last.probe = "classified"
  /\ last.err = NoErr
  /\ Tracked(last.ia)
  /\ known[last.ia] \ last.fps # {}
  /\ Keys(blockedPathSets[last.ia]) = last.fps \ {Fingerprint(safePaths[last.ia])}
  /\ Cardinality(last.fps) >= 2

\* the error getProber or Prober.GetStatuses returned, by kind of answer
ProbingError(kind) ==
  IF kind = "proberErr" THEN ErrProber
  ELSE IF kind = "statusErr" THEN ErrStatuses
  ELSE NoErr

\* C22: when creating the prober or classifying the paths returns an error
\* during UpdatePaths, UpdatePaths returns that error and the destination has
\* no safe path recorded: it has no record and every path to it is dropped.
C22_ProbingErrorPropagated ==
  (/\ last.op = "UpdatePaths"
   /\ last.probe \in {"proberErr", "statusErr"})
  => /\ last.probed
     /\ last.err = ProbingError(last.probe)
     /\ last.err # NoErr
     /\ safePaths[last.ia] = NilPath
     /\ ~Tracked(last.ia)
     /\ \A p \in Paths :
          AllButOneGetsDropped(blockedPathSets, last.ia, p, FALSE).drop

\* a classification error for a tracked destination whose safe path left the
\* path set, reported to the caller
C22_Witness ==
  /\ last.op = "UpdatePaths"
  /\ last.probe = "statusErr"
  /\ last.pre = "safeGone"
  /\ last.oldSafe # NilPath
  /\ last.err = ErrStatuses
  /\ safePaths[last.ia] = NilPath
  /\ Cardinality(last.fps) >= 2

\* C23: under any interleaving of Send, SetDstPath and ClearDst on an
\* endpoint, the destination and path getsDropped judged are those the
\* endpoint holds while the Send is at the socket write, and those of the
\* datagram it writes.
C23_JudgedPathIsSentPath ==
  \A t \in Threads :
    LET f == pc[t]
    IN  (f.op = "Send" /\ f.judged # NotJudged)
        => /\ f.at = "WriteTo" => dst[f.e] = f.judged
           /\ f.wire # <<>>
              => /\ f.wire[1].ia = f.judged.ia
                 /\ f.wire[1].path = f.judged.path

\* a Send between the adversary's verdict and the socket write, while a
\* SetDstPath with another path or a ClearDst waits for the same endpoint
C23_Witness ==
  \E t \in Threads, u \in Threads :
    /\ t # u
    /\ pc[t].op = "Send"
    /\ pc[t].at = "WriteTo"
    /\ pc[t].judged # NotJudged
    /\ pc[u].op \in {"SetDstPath", "ClearDst"}
    /\ pc[u].e = pc[t].e
    /\ pc[u].at = "Lock"
    /\ pc[u].path # pc[t].judged.path

\* the step in which AllButOneLossy's getsDropped, run by t, turns a call
\* the embedded AllButOneAdversary let through into a drop
ConvertsToDrop(t) ==
  /\ adv = "AllButOneLossy"
  /\ pc[t].op = "Send"
  /\ pc[t].at = "adv.body2"
  /\ ~pc[t].drop
  /\ pc'[t].at = "returned"

\* C24: under any interleaving of getsDropped and UpdatePaths calls on an
\* AllButOneLossyAdversary, a call the embedded adversary let through is
\* turned into a drop only in the step that sets hadLoss, and hadLoss is
\* never reset: at most one call is converted in the life of the instance.
C24_OneShotLoss ==
  [][/\ hadLoss => hadLoss'
     /\ \A t \in Threads : ConvertsToDrop(t) => (~hadLoss /\ hadLoss')]_vars

\* the loss is spent, and a call the embedded adversary let through goes on
\* to the socket while a Send on the other endpoint came back without writing
C24_Witness ==
  /\ adv = "AllButOneLossy"
  /\ hadLoss
  /\ \E t \in Threads, u \in Threads :
       /\ t # u
       /\ pc[t].op = "Send" /\ pc[t].at = "WriteTo" /\ pc[t].consulted
       /\ pc[u].op = "Send" /\ pc[u].at = "returned" /\ pc[u].consulted
       /\ pc[u].wire = <<>> /\ pc[u].ret = NoErr
       /\ pc[u].e # pc[t].e

\* C25: for any interleaving of getsDropped calls on one LazyAdversary, the
\* counter never exceeds wakeUp and changes only by one, in a step of the
\* execution that holds the adversary's lock; the calls answered by the
\* wake-up phase are those counted, LazyWakeUp of them; and every call gets
\* the answer it gets when the calls are made one after the other, in the
\* order in which they were answered.
C25_LazyLinearized ==
  /\ [](/\ counter <= LazyWakeUp
        /\ counter = Min(nCalls, LazyWakeUp)
        /\ blockedPaths = refBlocked
        /\ last.op = "Lazy.getsDropped"
           => /\ last.drop = last.refDrop
              /\ last.err = last.refErr
              /\ (last.nth < LazyWakeUp) = (last.counter < LazyWakeUp)
              /\ last.nth < LazyWakeUp => (~last.drop /\ last.err = NoErr))
  /\ [][counter' # counter
        => /\ alock # NoThread
           /\ pc[alock].at = "adv.body"
           /\ pc'[alock].at = "returned"
           /\ counter' = counter + 1]_vars

\* a call judged by the embedded SimpleAdversary and dropped, while the other
\* execution, past the wake-up test, waits for the lock with another path
C25_Witness ==
  /\ last.op = "Lazy.getsDropped"
  /\ last.nth >= LazyWakeUp
  /\ last.drop
  /\ counter = LazyWakeUp
  /\ \E u \in Threads \ {last.t} :
       /\ pc[u].op = "getsDropped"
       /\ pc[u].at = "adv.Lock2"
       /\ pc[u].e = last.ia
       /\ pc[u].path # last.path

\* C26: whenever the adversary's lock is free, a destination has a blocked-set
\* record if and only if it has a recorded safe path, and the fingerprint of
\* the recorded safe path is not in the destination's blocked set.
C26_RecordConsistency ==
  \A ia \in IAs :
    /\ Tracked(ia) <=> safePaths[ia] # NilPath
    /\ Tracked(ia) => ~Blocked(ia, Fingerprint(safePaths[ia]))

\* a destination tracked with a new safe path after the old one left the
\* path set, its other paths blocked, while the other destination lost its
\* record in a failed probe
C26_Witness ==
  /\ last.op = "UpdatePaths"
  /\ last.pre = "safeGone"
  /\ last.probed
  /\ Tracked(last.ia)
  /\ safePaths[last.ia] # NilPath
  /\ safePaths[last.ia] # last.oldSafe
  /\ Keys(blockedPathSets[last.ia]) # {}
  /\ \E ib \in IAs \ {last.ia} :
       ~Tracked(ib) /\ outcome[ib] = "failed" /\ safePaths[ib] = NilPath

\* C27: an UpdatePaths that returns no error leaves the destination tracked,
\* with a record and a safe path; a call that discards the record returns an
\* error.
C27_NilReturnMeansTracking ==
  (/\ last.op = "UpdatePaths"
   /\ last.ia \in IAs
   /\ last.err = NoErr)
  => /\ Tracked(last.ia)
     /\ safePaths[last.ia] # NilPath

====
